---- MODULE Spec2Model ----
(***************************************************************************)
(* A model of mad_adders.py: a genetic search over digit-wise "addition    *)
(* algorithms".  A candidate is a triple (op, acc, chooser) of genes; the  *)
(* interpreter `loop` runs it over a problem (a, b, answer); the evaluator *)
(* `candidate_score` penalises faults; `sort_candidates` ranks; and        *)
(* `repopulate` breeds the next population from the five best.             *)
(*                                                                         *)
(* Numbers.  Digits are integers.  The results of the binary operations    *)
(* are kept as exact fractions <<numerator, denominator>> (div is Python's *)
(* true division), and sums of them are kept in units of 1/Scale, where    *)
(* Scale is the least common multiple of the possible divisors 1..9.       *)
(* Python computes the same quantities in binary floating point; the model *)
(* is exact, so it differs from the program by rounding error only.        *)
(*                                                                         *)
(* Randomness.  Every call of choice() and uniform() is a nondeterministic *)
(* choice among the outcomes the call can produce.                         *)
(***************************************************************************)
EXTENDS Integers, Sequences, FiniteSets, TLC

VARIABLES
    pc,            \* position of the running code
    min_size,      \* generate_problem: argument
    max_size,      \* generate_problem: argument
    problem,       \* generate_problem: the triple returned
    alg,           \* candidate_score: the algorithm being scored
    problems,      \* the batch of problems (module level / candidate_score)
    k,             \* candidate_score: number of problems processed so far
    runs,          \* candidate_score: what loop did on each problem so far
    contribs,      \* candidate_score: what each problem added to score
    score,         \* candidate_score: the value returned
    num_rounds,    \* module level
    num_problems,  \* module level
    candidates,    \* module level: the population
    r,             \* module level: the round loop's variable
    order,         \* sort_candidates: iteration order of all_candidates
    scores,        \* sort_candidates: the key of each element of order
    ranked,        \* sort_candidates: the list returned
    best,          \* module level: the top candidates
    children,      \* repopulate: the set being built
    i1,            \* repopulate: position of c1 in candidates
    i2,            \* repopulate: position of c2 in candidates
    child,         \* repopulate: the crossing made by the last iteration
    mutations      \* number of mutation draws made so far

vars == <<pc, min_size, max_size, problem, alg, problems, k, runs, contribs,
          score, num_rounds, num_problems, candidates, r, order, scores,
          ranked, best, children, i1, i2, child, mutations>>

gen_vars == <<min_size, max_size, problem>>
score_vars == <<alg, k, runs, contribs, score>>
sort_vars == <<order, scores, ranked>>
repop_vars == <<children, i1, i2, child>>

None == "None"

\* repopulate: no crossing made yet
NoChild == [c1 |-> <<>>, c2 |-> <<>>, genes |-> <<>>, mutated |-> <<>>]

-----------------------------------------------------------------------------
(* Bounds of the exploration *)

\* generate_problem is called with 0 <= min_size < max_size <= MaxSize
MaxSize == 3
\* the interpreter is called on digit lists of length 0..MaxLen
MaxLen == 2
\* candidate_score is called on 1..MaxBatch problems
MaxBatch == 2
\* repopulate is called on 0..MaxSurvivors survivors
MaxSurvivors == 2
\* the survivors handed to repopulate carry the first MaxParentGene genes of each pool
MaxParentGene == 2
\* the driver is asked for 1..MaxSeeds seed candidates
MaxSeeds == 2
\* the driver is asked for 1..MaxRounds rounds
MaxRounds == 2
\* the driver is asked for 1..MaxProblems problems per round
MaxProblems == 1
\* seeding draws among the first MaxSeedOps operations,
\* the first MaxSeedAccs accumulators and the first MaxSeedChoosers choosers
MaxSeedOps == 2
MaxSeedAccs == 1
MaxSeedChoosers == 1
\* in the driver, uniform(0, 1) falls at or below 0.25 at most MaxMutations times
MaxMutations == 1

-----------------------------------------------------------------------------
(* Helpers *)

Min(m, n) == IF m <= n THEN m ELSE n

Abs(n) == IF n < 0 THEN -n ELSE n

RECURSIVE Pow(_, _)
Pow(x, y) == IF y = 0 THEN 1 ELSE x * Pow(x, y - 1)

Range(s) == {s[i] : i \in 1..Len(s)}

Prefix(s, n) == SubSeq(s, 1, Min(n, Len(s)))

\* all sequences over S of length lo..hi
SeqsOf(S, lo, hi) == UNION {[1..n -> S] : n \in lo..hi}

-----------------------------------------------------------------------------
(* Digit arithmetic *)

\* range(10)
Digits == 0..9

RECURSIVE list_to_int(_)
list_to_int(x) ==
    IF x = <<>> THEN 0
    ELSE list_to_int(SubSeq(x, 1, Len(x) - 1)) + Pow(10, Len(x) - 1) * x[Len(x)]

list_sum(a, b) == list_to_int(a) + list_to_int(b)

-----------------------------------------------------------------------------
(* Problem generator *)

\* a slip in the modulus: b[i] may reach 10 - a[i]
draw_b_off_by_one(raw, ai) == raw % (11 - ai)

\* b[i] = choice(range(10)) % (10 - a[i])
draw_b(raw, ai) == raw % (10 - ai)

\* The triple generate_problem returns when choice(range(min_size, max_size))
\* is len(a), the draws for a are the list a and the draws choice(range(10))
\* for b are the list raw.
generate_problem(a, raw) ==
    LET b == [i \in 1..Len(a) |-> draw_b(raw[i], a[i])]
    IN  <<a, b, list_sum(a, b)>>

\* The triples generate_problem(lo, hi) can return when its digit draws
\* fall in `draws`.
generated_problems(lo, hi, draws) ==
    UNION {{generate_problem(a, raw) : a \in [1..n -> draws], raw \in [1..n -> draws]}
           : n \in lo..(hi - 1)}

GenInit ==
    /\ pc = "gen_call"
    /\ min_size \in 0..(MaxSize - 1)
    /\ max_size \in (min_size + 1)..MaxSize
    /\ problem = None
    /\ alg = None /\ problems = <<>> /\ k = 0 /\ runs = <<>> /\ contribs = <<>>
    /\ score = None
    /\ num_rounds = 0 /\ num_problems = 0 /\ candidates = {} /\ r = -1
    /\ order = <<>> /\ scores = <<>> /\ ranked = <<>> /\ best = <<>>
    /\ children = {} /\ i1 = 0 /\ i2 = 0 /\ child = NoChild /\ mutations = 0

GenerateProblem ==
    /\ pc = "gen_call"
    /\ \E size \in min_size..(max_size - 1) :
       \E a \in [1..size -> Digits], raw \in [1..size -> Digits] :
          problem' = generate_problem(a, raw)
    /\ pc' = "gen_done"
    /\ UNCHANGED <<min_size, max_size, problems, score_vars, num_rounds,
                   num_problems, candidates, r, sort_vars, best, repop_vars,
                   mutations>>

GenNext == GenerateProblem

SpecGen == GenInit /\ [][GenNext]_vars

-----------------------------------------------------------------------------
(* Gene pools and binary operations *)

BINARY_OPERATIONS == <<"add", "mult", "div", "exp">>
ACCUMULATORS == <<"append", "prepend", "replace", "insert_rand">>
CHOOSERS == <<"len", "rand_in_len", "zero">>

\* every (op, acc, chooser)
Genomes == Range(BINARY_OPERATIONS) \X Range(ACCUMULATORS) \X Range(CHOOSERS)

\* the least common multiple of the divisors 1..9
Scale == 8 * 9 * 5 * 7

add(x, y) == <<x + y, 1>>

mult(x, y) == <<x * y, 1>>

\* x / y, for y # 0
div(x, y) == <<x, y>>

exp(x, y) == <<Pow(x, y), 1>>

\* op(x, y) raises ZeroDivisionError
op_faults(op, x, y) == op = "div" /\ y = 0

apply_op(op, x, y) ==
    CASE op = "add" -> add(x, y)
      [] op = "mult" -> mult(x, y)
      [] op = "div" -> div(x, y)
      [] op = "exp" -> exp(x, y)

\* v > 9, for a fraction v
exceeds_9(v) == v[1] > 9 * v[2]

\* a fraction no greater than 9, in units of 1/Scale
scaled(v) == v[1] * (Scale \div v[2])

-----------------------------------------------------------------------------
(* Choosers and accumulators: the values a call can return *)

\* a slip in the full-length chooser: one iteration too many
chooser_results_past_end(chooser, seq) ==
    CASE chooser = "len" -> {Len(seq) + 1}
      [] chooser = "rand_in_len" -> 0..(Len(seq) - 1)
      [] chooser = "zero" -> {0}

\* chooser(seq); the empty set when choice(range(0)) raises IndexError
chooser_results(chooser, seq) ==
    CASE chooser = "len" -> {Len(seq)}
      [] chooser = "rand_in_len" -> 0..(Len(seq) - 1)
      [] chooser = "zero" -> {0}

\* a slip in append: the new element goes in front
append_in_front(prev, new) == <<new>> \o prev

append(prev, new) == prev \o <<new>>

prepend(prev, new) == <<new>> \o prev

replace(prev, new) == <<new>>

\* prev[:i] + [new] + prev[i:], i = choice(range(len(prev) + 1))
insert_rand(prev, new) ==
    {SubSeq(prev, 1, i) \o <<new>> \o SubSeq(prev, i + 1, Len(prev)) : i \in 0..Len(prev)}

acc_results(acc, prev, new) ==
    CASE acc = "append" -> {append(prev, new)}
      [] acc = "prepend" -> {prepend(prev, new)}
      [] acc = "replace" -> {replace(prev, new)}
      [] acc = "insert_rand" -> insert_rand(prev, new)

-----------------------------------------------------------------------------
(* The interpreter *)

\* What iterations i, i+1, ..., n-1 (counted from 0) of loop's for statement can
\* do, starting with the list z: a record of the fault raised ("none" when the
\* loop returns), the list z at that point and the iteration count n.
RECURSIVE loop_from(_, _, _, _, _, _, _)
loop_from(x, y, op, acc, n, i, z) ==
    IF i >= n THEN {[fault |-> "none", z |-> z, n |-> n]}
    ELSE IF i + 1 > Len(x) \/ i + 1 > Len(y)
         THEN {[fault |-> "index", z |-> z, n |-> n]}
    ELSE IF op_faults(op, x[i + 1], y[i + 1])
         THEN {[fault |-> "zero_division", z |-> z, n |-> n]}
    ELSE UNION {loop_from(x, y, op, acc, n, i + 1, z2) :
                    z2 \in acc_results(acc, z, apply_op(op, x[i + 1], y[i + 1]))}

\* Everything loop(x, y, op, acc, chooser) can do.
loop(x, y, op, acc, chooser) ==
    IF chooser_results(chooser, x) = {}
    THEN {[fault |-> "empty_choice", z |-> <<>>, n |-> 0]}
    ELSE UNION {loop_from(x, y, op, acc, n, 0, <<>>) : n \in chooser_results(chooser, x)}

-----------------------------------------------------------------------------
(* The fitness evaluator *)

\* score += 999, in units of 1/Scale
Penalty == 999 * Scale

\* any(map(lambda x: x > 9, alg_ans))
any_exceeds_9(z) == \E i \in 1..Len(z) : exceeds_9(z[i])

\* a slip in the evaluator: elements above 9 are not rejected
contribution_unchecked(run, answer) ==
    IF run.fault # "none" THEN Penalty
    ELSE Abs(list_to_int([i \in 1..Len(run.z) |-> (run.z[i][1] * Scale) \div run.z[i][2]]) - answer * Scale)

\* What one problem adds to score, given what loop did on it: the body of
\* candidate_score's for statement.
contribution(run, answer) ==
    IF run.fault # "none" THEN Penalty
    ELSE IF any_exceeds_9(run.z) THEN Penalty
    ELSE Abs(list_to_int([i \in 1..Len(run.z) |-> scaled(run.z[i])]) - answer * Scale)

RECURSIVE SumSeq(_)
SumSeq(s) == IF s = <<>> THEN 0 ELSE s[1] + SumSeq(Tail(s))

\* score / len(problems), as the fraction <<score, len(problems)>>
mean(total, n) == <<total, n>>

\* Everything candidate_score(algorithm, ps) can return: the pairs
\* <<per-problem contributions, value returned>>.
RECURSIVE candidate_contribs(_, _)
candidate_contribs(algorithm, ps) ==
    IF ps = <<>> THEN {<<>>}
    ELSE {<<contribution(run, ps[1][3])>> \o rest :
            run \in loop(ps[1][1], ps[1][2], algorithm[1], algorithm[2], algorithm[3]),
            rest \in candidate_contribs(algorithm, Tail(ps))}

candidate_score(algorithm, ps) ==
    {mean(SumSeq(c), Len(ps)) : c \in candidate_contribs(algorithm, ps)}

\* The digit draws explored where whole batches of problems are scored:
\* 0 makes zero divisors, 4 makes products above 9.
BatchDigits == {0, 4}

\* The digits of the lists handed to the interpreter one pair at a time:
\* 2 + 5 carries nothing and 2 * 5 exceeds 9, 5 + 5 and 9 + 2 carry.
LoopDigits == {0, 2, 5, 9}

ScoreInitRest ==
    /\ pc = "score_loop"
    /\ min_size = 0 /\ max_size = 0 /\ problem = None
    /\ k = 0 /\ runs = <<>> /\ contribs = <<>> /\ score = None
    /\ num_rounds = 0 /\ num_problems = 0 /\ candidates = {} /\ r = -1
    /\ order = <<>> /\ scores = <<>> /\ ranked = <<>> /\ best = <<>>
    /\ children = {} /\ i1 = 0 /\ i2 = 0 /\ child = NoChild /\ mutations = 0

\* candidate_score is called on a batch of generated problems
ScoreInit ==
    /\ alg \in Genomes
    /\ problems \in SeqsOf(generated_problems(2, 3, BatchDigits), 1, MaxBatch)
    /\ ScoreInitRest

\* candidate_score is called on one pair of digit lists of any lengths, with
\* the sum of the two as the answer
LoopInit ==
    /\ alg \in Genomes
    /\ \E x \in SeqsOf(LoopDigits, 0, MaxLen), y \in SeqsOf(LoopDigits, 0, MaxLen) :
          problems = << <<x, y, list_sum(x, y)>> >>
    /\ ScoreInitRest

\* one iteration of candidate_score's for statement
ScoreProblem ==
    /\ pc = "score_loop"
    /\ k < Len(problems)
    /\ \E run \in loop(problems[k + 1][1], problems[k + 1][2], alg[1], alg[2], alg[3]) :
          /\ runs' = Append(runs, run)
          /\ contribs' = Append(contribs, contribution(run, problems[k + 1][3]))
    /\ k' = k + 1
    /\ UNCHANGED <<pc, gen_vars, alg, problems, score, num_rounds, num_problems,
                   candidates, r, sort_vars, best, repop_vars, mutations>>

\* candidate_score returns
ScoreReturn ==
    /\ pc = "score_loop"
    /\ k = Len(problems)
    /\ score' = mean(SumSeq(contribs), Len(problems))
    /\ pc' = "score_done"
    /\ UNCHANGED <<gen_vars, alg, problems, k, runs, contribs, num_rounds,
                   num_problems, candidates, r, sort_vars, best, repop_vars,
                   mutations>>

ScoreNext == ScoreProblem \/ ScoreReturn

SpecScore == ScoreInit /\ [][ScoreNext]_vars

SpecLoop == LoopInit /\ [][ScoreNext]_vars

-----------------------------------------------------------------------------
(* The selector *)

\* key1 < key2, for two values returned by candidate_score
score_less(key1, key2) == key1[1] * key2[2] < key2[1] * key1[2]

\* a slip in the sort: a new key goes in front of the keys equal to it
insertion_point_before_equal(keys, key) ==
    Cardinality({i \in 1..Len(keys) : score_less(keys[i], key)})

\* sorted(): the place in the sorted list `keys` where a new key goes, behind
\* every key that is not greater than it
insertion_point(keys, key) ==
    Cardinality({i \in 1..Len(keys) : ~score_less(key, keys[i])})

\* sorted(items, key=...) where keys[i] is the key computed for items[i]:
\* the list of <<item, key>> pairs in ascending order of key
RECURSIVE sorted_pairs(_, _)
sorted_pairs(items, keys) ==
    IF items = <<>> THEN <<>>
    ELSE LET n == Len(items)
             front == sorted_pairs(SubSeq(items, 1, n - 1), SubSeq(keys, 1, n - 1))
             at == insertion_point([i \in 1..Len(front) |-> front[i][2]], keys[n])
         IN  SubSeq(front, 1, at) \o << <<items[n], keys[n]>> >> \o SubSeq(front, at + 1, Len(front))

sorted(items, keys) ==
    LET pairs == sorted_pairs(items, keys) IN [i \in 1..Len(pairs) |-> pairs[i][1]]

\* the lists of keys sorted() can compute for `items`: one call of
\* candidate_score for each
RECURSIVE score_lists(_, _)
score_lists(items, ps) ==
    IF items = <<>> THEN {<<>>}
    ELSE {<<key>> \o rest : key \in candidate_score(items[1], ps),
                            rest \in score_lists(Tail(items), ps)}

\* the orders in which a set can be iterated
iteration_orders(S) ==
    {s \in [1..Cardinality(S) -> S] : \A i, j \in 1..Cardinality(S) : i # j => s[i] # s[j]}

\* sort_candidates(...)[:5]
TopK == 5

-----------------------------------------------------------------------------
(* The reproducer *)

\* a slip in the mutation pool: only the first parent's gene is left out
mutation_pool_first_parent(pool, g1, g2) == SelectSeq(pool, LAMBDA x : x # g1)

\* [x for x in POOL if x not in [g1, g2]]
mutation_pool(pool, g1, g2) == SelectSeq(pool, LAMBDA x : x \notin {g1, g2})

\* The gene one position of a crossing can get, with whether it came from the
\* mutation branch: choice([g1, g2]) when uniform(0, 1) > 0.25, otherwise
\* choice(mutation_pool), which raises IndexError on an empty list.
gene_draws(pool, g1, g2, may_mutate) ==
    {<<g, FALSE>> : g \in {g1, g2}}
    \cup (IF ~may_mutate THEN {}
          ELSE IF mutation_pool(pool, g1, g2) = <<>> THEN {<<"IndexError", TRUE>>}
          ELSE {<<g, TRUE>> : g \in Range(mutation_pool(pool, g1, g2))})

\* a slip in repopulate: the set of children starts empty
no_initial_children(survivors) == {}

\* children = set(candidates)
initial_children(survivors) == Range(survivors)

\* a slip in repopulate: a survivor is crossed with itself too
never_same_parents(c1, c2) == FALSE

\* if c1 == c2: continue
same_parents(c1, c2) == c1 = c2

\* the pair of positions the nested for statements visit after <<p1, p2>>
next_pair(p1, p2, n) == IF p2 < n THEN <<p1, p2 + 1>> ELSE <<p1 + 1, 1>>

\* repopulate(best) is entered
RepopEnter ==
    /\ pc = "repop_call"
    /\ children' = initial_children(best)
    /\ i1' = 1 /\ i2' = 1 /\ child' = NoChild
    /\ pc' = "repop_loop"
    /\ UNCHANGED <<gen_vars, score_vars, problems, num_rounds, num_problems,
                   candidates, r, sort_vars, best, mutations>>

\* an iteration with c1 == c2
RepopSkip ==
    /\ pc = "repop_loop"
    /\ i1 <= Len(best)
    /\ same_parents(best[i1], best[i2])
    /\ i1' = next_pair(i1, i2, Len(best))[1]
    /\ i2' = next_pair(i1, i2, Len(best))[2]
    /\ UNCHANGED <<pc, gen_vars, score_vars, problems, num_rounds, num_problems,
                   candidates, r, sort_vars, best, children, child, mutations>>

\* An iteration that crosses c1 and c2, when at most `budget` of its three
\* uniform(0, 1) draws may fall in the mutation branch; `counted` says
\* whether the draws that do are added to mutations.
RepopCross(budget, counted) ==
    /\ pc = "repop_loop"
    /\ i1 <= Len(best)
    /\ ~same_parents(best[i1], best[i2])
    /\ LET c1 == best[i1]
           c2 == best[i2]
       IN  \E d1 \in gene_draws(BINARY_OPERATIONS, c1[1], c2[1], budget > 0),
              d2 \in gene_draws(ACCUMULATORS, c1[2], c2[2], budget > 0),
              d3 \in gene_draws(CHOOSERS, c1[3], c2[3], budget > 0) :
              LET drawn == Cardinality({p \in 1..3 : <<d1, d2, d3>>[p][2]})
                  genes == <<d1[1], d2[1], d3[1]>>
              IN  /\ drawn <= budget
                  /\ mutations' = IF counted THEN mutations + drawn ELSE mutations
                  /\ IF "IndexError" \in Range(genes)
                     THEN /\ pc' = "crashed"
                          /\ UNCHANGED <<children, child, i1, i2>>
                     ELSE /\ children' = children \cup {genes}
                          /\ child' = [c1 |-> c1, c2 |-> c2, genes |-> genes,
                                       mutated |-> <<d1[2], d2[2], d3[2]>>]
                          /\ i1' = next_pair(i1, i2, Len(best))[1]
                          /\ i2' = next_pair(i1, i2, Len(best))[2]
                          /\ pc' = pc
    /\ UNCHANGED <<gen_vars, score_vars, problems, num_rounds, num_problems,
                   candidates, r, sort_vars, best>>

\* repopulate returns and the driver assigns candidates
RepopReturn ==
    /\ pc = "repop_loop"
    /\ i1 > Len(best)
    /\ candidates' = children
    /\ children' = {} /\ i1' = 0 /\ i2' = 0 /\ child' = NoChild
    /\ pc' = "loop"
    /\ UNCHANGED <<gen_vars, score_vars, problems, num_rounds, num_problems,
                   r, sort_vars, best, mutations>>

\* the genomes whose genes are among the first n of each pool
first_genomes(n_ops, n_accs, n_choosers) ==
    Range(Prefix(BINARY_OPERATIONS, n_ops)) \X Range(Prefix(ACCUMULATORS, n_accs))
        \X Range(Prefix(CHOOSERS, n_choosers))

\* repopulate is called in the last round on any list of survivors
RepopInit ==
    /\ pc = "repop_call"
    /\ best \in SeqsOf(first_genomes(MaxParentGene, MaxParentGene, MaxParentGene),
                       0, MaxSurvivors)
    /\ candidates = Range(best)
    /\ min_size = 0 /\ max_size = 0 /\ problem = None
    /\ alg = None /\ problems = <<>> /\ k = 0 /\ runs = <<>> /\ contribs = <<>>
    /\ score = None
    /\ num_rounds = 1 /\ num_problems = 1 /\ r = 0
    /\ order = <<>> /\ scores = <<>> /\ ranked = <<>>
    /\ children = {} /\ i1 = 0 /\ i2 = 0 /\ child = NoChild /\ mutations = 0

RepopNext == RepopEnter \/ RepopSkip \/ RepopCross(3, FALSE) \/ RepopReturn

SpecRepop == RepopInit /\ [][RepopNext]_vars

-----------------------------------------------------------------------------
(* The evolution driver *)

DriverInit ==
    /\ pc = "seed"
    /\ min_size = 0 /\ max_size = 0 /\ problem = None
    /\ alg = None /\ problems = <<>> /\ k = 0 /\ runs = <<>> /\ contribs = <<>>
    /\ score = None
    /\ num_rounds = 0 /\ num_problems = 0 /\ candidates = {} /\ r = -1
    /\ order = <<>> /\ scores = <<>> /\ ranked = <<>> /\ best = <<>>
    /\ children = {} /\ i1 = 0 /\ i2 = 0 /\ child = NoChild /\ mutations = 0

\* the genomes generate_candidate() draws
generate_candidate == first_genomes(MaxSeedOps, MaxSeedAccs, MaxSeedChoosers)

\* candidates = {generate_candidate() for _ in range(num_candidates)}
Seed ==
    /\ pc = "seed"
    /\ \E num_candidates \in 1..MaxSeeds :
       \E draws \in [1..num_candidates -> generate_candidate] :
          candidates' = Range(draws)
    /\ pc' = "config"
    /\ UNCHANGED <<gen_vars, score_vars, problems, num_rounds, num_problems, r,
                   sort_vars, best, repop_vars, mutations>>

\* num_rounds and num_problems are read
Configure ==
    /\ pc = "config"
    /\ num_rounds' \in 1..MaxRounds
    /\ num_problems' \in 1..MaxProblems
    /\ pc' = "loop"
    /\ UNCHANGED <<gen_vars, score_vars, problems, candidates, r, sort_vars,
                   best, repop_vars, mutations>>

\* a slip in the round loop: one round too many
more_rounds_inclusive(round, rounds) == round + 1 <= rounds

\* for r in range(num_rounds): another value is left after r
more_rounds(round, rounds) == round + 1 < rounds

\* a round begins: problems = [generate_problem(2, 3) for _ in range(num_problems)]
RoundStart ==
    /\ pc = "loop"
    /\ more_rounds(r, num_rounds)
    /\ r' = r + 1
    /\ problems' \in SeqsOf(generated_problems(2, 3, BatchDigits),
                            num_problems, num_problems)
    /\ pc' = "rank"
    /\ UNCHANGED <<gen_vars, score_vars, num_rounds, num_problems, candidates,
                   sort_vars, best, repop_vars, mutations>>

\* best = sort_candidates(candidates, problems)[:5]
Rank ==
    /\ pc = "rank"
    /\ IF problems = <<>>
       THEN /\ pc' = "crashed"
            /\ UNCHANGED <<sort_vars, best>>
       ELSE /\ order' \in iteration_orders(candidates)
            /\ scores' \in score_lists(order', problems)
            /\ ranked' = sorted(order', scores')
            /\ best' = Prefix(ranked', TopK)
            /\ pc' = "report"
    /\ UNCHANGED <<gen_vars, score_vars, problems, num_rounds, num_problems,
                   candidates, r, repop_vars, mutations>>

\* the round's report, which reads best[0]; sort_candidates' locals are gone
Report ==
    /\ pc = "report"
    /\ pc' = IF best = <<>> THEN "crashed" ELSE "repop_call"
    /\ order' = <<>> /\ scores' = <<>> /\ ranked' = <<>>
    /\ UNCHANGED <<gen_vars, score_vars, problems, num_rounds, num_problems,
                   candidates, r, best, repop_vars, mutations>>

\* the for statement is exhausted and the module ends
Finish ==
    /\ pc = "loop"
    /\ ~more_rounds(r, num_rounds)
    /\ pc' = "done"
    /\ UNCHANGED <<gen_vars, score_vars, problems, num_rounds, num_problems,
                   candidates, r, sort_vars, best, repop_vars, mutations>>

Next ==
    \/ Seed
    \/ Configure
    \/ RoundStart
    \/ Rank
    \/ Report
    \/ RepopEnter
    \/ RepopSkip
    \/ RepopCross(MaxMutations - mutations, TRUE)
    \/ RepopReturn
    \/ Finish

Spec == DriverInit /\ [][Next]_vars

\* the interpreter runs every statement in turn
FairSpec == Spec /\ WF_vars(Next)

-----------------------------------------------------------------------------
(* Properties of the problem generator, the interpreter and the evaluator *)

\* the value of a digit list read least significant digit first
RECURSIVE PositionalValue(_)
PositionalValue(s) == IF s = <<>> THEN 0 ELSE s[1] + 10 * PositionalValue(Tail(s))

\* a problem as the data model defines it
WellFormed(p) ==
    /\ Len(p[1]) = Len(p[2])
    /\ \A i \in 1..Len(p[1]) :
          p[1][i] \in 0..9 /\ p[2][i] \in 0..9 /\ p[1][i] + p[2][i] <= 9
    /\ p[3] = PositionalValue(p[1]) + PositionalValue(p[2])

\* C3: every triple generate_problem(min_size, max_size) returns has lists a
\* and b of one length in min_size..max_size-1, digits in 0..9 that never
\* carry, and the sum of the two positional values as its third component.
C3_GeneratedProblemIsWellFormed ==
    pc = "gen_done" =>
        /\ WellFormed(problem)
        /\ min_size <= Len(problem[1]) /\ Len(problem[1]) < max_size

\* a generated two-digit problem with a column that sums to 9 exactly
C3_Witness ==
    /\ pc = "gen_done" /\ Len(problem[1]) = 2
    /\ problem[1][1] = 9 /\ problem[2][1] = 0
    /\ problem[1][2] = 4 /\ problem[2][2] = 5

\* the integer an interpreter result stands for when all its elements are
\* whole numbers; -1 otherwise
WholeValue(z) ==
    IF \A i \in 1..Len(z) : z[i][2] = 1
    THEN PositionalValue([i \in 1..Len(z) |-> z[i][1]])
    ELSE -1

\* C1: on a well-formed problem the candidate (add, append, len) runs without
\* a fault, produces no element above 9 and a list whose value is the
\* problem's sum, so the problem adds 0 to its score and the score is 0.
C1_AddAppendLenIsExact ==
    (alg = <<"add", "append", "len">> /\ \A j \in 1..Len(problems) : WellFormed(problems[j])) =>
        /\ \A j \in 1..k :
              /\ runs[j].fault = "none"
              /\ \A i \in 1..Len(runs[j].z) : runs[j].z[i][1] <= 9 * runs[j].z[i][2]
              /\ WholeValue(runs[j].z) = problems[j][3]
              /\ contribs[j] = 0
        /\ pc = "score_done" => score = <<0, Len(problems)>>

\* the spec's scenario: [2,5] + [5,2] scored by (add, append, len)
C1_Witness ==
    /\ pc = "score_done" /\ alg = <<"add", "append", "len">>
    /\ problems = << <<(<<2, 5>>), (<<5, 2>>), 77>> >>
    /\ runs[1].z = << <<7, 1>>, <<7, 1>> >>

\* an interpreter result's value in units of 1/Scale
RECURSIVE ScaledValue(_)
ScaledValue(z) ==
    IF z = <<>> THEN 0
    ELSE (z[1][1] * Scale) \div z[1][2] + 10 * ScaledValue(Tail(z))

\* C2: each problem adds exactly 999 when the run faults (in particular when
\* the operation is div and b has a zero at an index the loop reaches) or an
\* element of the result exceeds 9, and exactly |value - answer| otherwise;
\* every problem is scored, and the value returned is the mean.
C2_PenaltyOrAbsoluteError ==
    /\ \A j \in 1..k :
          LET run == runs[j]
              bad == run.fault # "none" \/ \E i \in 1..Len(run.z) : run.z[i][1] > 9 * run.z[i][2]
          IN  /\ bad => contribs[j] = 999 * Scale
              /\ ~bad => contribs[j] = Abs(ScaledValue(run.z) - problems[j][3] * Scale)
              /\ (alg[1] = "div" /\ \E i \in 1..run.n : problems[j][2][i] = 0)
                    => contribs[j] = 999 * Scale
    /\ Len(contribs) = k /\ Len(runs) = k
    /\ pc = "score_done" =>
          /\ k = Len(problems)
          /\ score = <<SumSeq(contribs), Len(problems)>>

\* a batch whose first problem is penalised for a division by zero and whose
\* second problem is scored by its error
C2_Witness ==
    /\ pc = "score_done" /\ Len(problems) = 2 /\ alg[1] = "div"
    /\ runs[1].fault = "zero_division" /\ contribs[1] = 999 * Scale
    /\ runs[2].fault = "none" /\ contribs[2] = 77 * Scale

\* C8 as claimed: in every call of the interpreter the iteration count is at
\* most min(len(a), len(b)) and no index is out of range.
C8_IterationsBoundedByBothLengths ==
    \A j \in 1..k :
        /\ runs[j].n <= Min(Len(problems[j][1]), Len(problems[j][2]))
        /\ runs[j].fault # "index"

\* C8 as amended: the iteration count is at most len(a); when len(a) <= len(b)
\* it is at most min(len(a), len(b)) and no index is out of range.
C8_IterationsBoundedByFirstLength ==
    \A j \in 1..k :
        /\ runs[j].n <= Len(problems[j][1])
        /\ Len(problems[j][1]) <= Len(problems[j][2]) =>
              /\ runs[j].n <= Min(Len(problems[j][1]), Len(problems[j][2]))
              /\ runs[j].fault # "index"

\* a full-length run over a shorter a and a longer b
C8_Witness ==
    /\ k = 1 /\ alg[3] = "len"
    /\ Len(problems[1][1]) = 1 /\ Len(problems[1][2]) = 2
    /\ runs[1].n = 1 /\ runs[1].fault = "none"

-----------------------------------------------------------------------------
(* Properties of the selector, the reproducer and the driver *)

\* the place of candidate c in the list s
PlaceIn(s, c) == CHOOSE i \in 1..Len(s) : s[i] = c

\* C7: the list sort_candidates returns is a permutation of the population,
\* each candidate scored once, in ascending order of score, and candidates
\* with equal scores keep the order they had in the input.
C7_RankingIsStableAscending ==
    pc = "report" =>
        /\ Range(order) = candidates
        /\ Len(scores) = Len(order) /\ Len(ranked) = Len(order)
        /\ Range(ranked) = Range(order)
        /\ \A i, j \in 1..Len(ranked) : i < j =>
              LET ki == scores[PlaceIn(order, ranked[i])]
                  kj == scores[PlaceIn(order, ranked[j])]
              IN  ki[1] * kj[2] <= kj[1] * ki[2]
        /\ \A i, j \in 1..Len(order) :
              (i < j /\ scores[i][1] * scores[j][2] = scores[j][1] * scores[i][2])
                  => PlaceIn(ranked, order[i]) < PlaceIn(ranked, order[j])

\* a ranking of three candidates that moves the first behind two that tie
C7_Witness ==
    /\ pc = "report" /\ Len(order) = 3
    /\ scores[2] = scores[3] /\ scores[2][1] < scores[1][1]
    /\ ranked = <<order[2], order[3], order[1]>>

\* C5: every survivor is a member of the set repopulate builds and returns,
\* so of the population the driver evaluates in the next round.
C5_SurvivorsAreKept ==
    /\ pc = "repop_loop" => Range(best) \subseteq children
    /\ pc = "loop" => Range(best) \subseteq candidates

\* repopulate has returned two survivors and two new genomes
C5_Witness ==
    /\ pc = "loop" /\ Len(best) = 2 /\ best[1] # best[2]
    /\ Cardinality(candidates) = 4

GenePool(p) == <<BINARY_OPERATIONS, ACCUMULATORS, CHOOSERS>>[p]

\* C6: a crossing is made of two distinct survivors; a gene taken in the
\* mutation branch is a member of its position's pool other than both parents'
\* genes there, and a gene taken in the inherit branch is one of the parents'.
C6_GenesAreInheritedOrNovel ==
    child # NoChild =>
        /\ child.c1 # child.c2
        /\ \A p \in 1..3 :
              IF child.mutated[p]
              THEN /\ child.genes[p] \in Range(GenePool(p))
                   /\ child.genes[p] # child.c1[p]
                   /\ child.genes[p] # child.c2[p]
              ELSE child.genes[p] \in {child.c1[p], child.c2[p]}

\* a crossing whose operation and chooser mutated and whose accumulator was
\* inherited from the second parent
C6_Witness ==
    /\ child # NoChild
    /\ child.mutated = <<TRUE, FALSE, TRUE>>
    /\ child.c1[3] # child.c2[3]
    /\ child.genes[2] = child.c2[2] /\ child.genes[2] # child.c1[2]

\* C4: no round is aborted by a fault, the driver never runs more rounds than
\* configured, it ends, and when it has ended it has run every round.
C4_RunsEveryRoundAndEnds ==
    /\ [](/\ pc # "crashed"
          /\ r < num_rounds \/ pc \in {"seed", "config"}
          /\ pc = "done" => r = num_rounds - 1)
    /\ <>(pc = "done")

\* two rounds were run, with a mutation, and the driver has ended
C4_Witness ==
    /\ pc = "done" /\ num_rounds = 2 /\ r = 1 /\ mutations = 1
    /\ Cardinality(candidates) >= 3

\* the most genomes repopulate can return for n survivors: the survivors and
\* one crossing for each ordered pair of them
MostChildren(n) == n + n * (n - 1)

C10_SingletonIsAbsorbing ==
    [][Cardinality(candidates) = 1 => candidates' = candidates]_vars

\* two rounds were run on a population of one genome
C10_Witness ==
    /\ pc = "done" /\ r = 1 /\ Cardinality(candidates) = 1 /\ Len(best) = 1

====
